---- MODULE Spec2Model ----
(***************************************************************************)
(* Model of suites.py: the suite registry (the module's global namespace   *)
(* scanned by the "suite_" prefix), the suite-defining functions, the two  *)
(* lookups get_suite_names / get_suite, and the command-line entry point.  *)
(* Python strings are TLA+ strings; they are taken apart with Len, SubSeq  *)
(* and \o and ordered by code point, as str comparison does.               *)
(***************************************************************************)
EXTENDS Integers, Sequences, FiniteSets, TLC

VARIABLES
    globals,  \* the module namespace: <<[name, kind]>> in definition order
    held,     \* the list the caller holds a reference to: [origin, items]
    result,   \* the last get_suite / get_suite_names call: its argument, its
              \* outcome, and the list the caller held when it was made
    first,    \* history: suite name -> items returned by its first get_suite
    calls,    \* number of get_suite calls made so far
    muts,     \* number of caller mutations of a returned list so far
    pc,       \* "import" (used as a library) or main's position
    argv,     \* command-line arguments after the program name
    args,     \* the parsed namespace: <<>> or <<args.suite>>
    suite,    \* main's local variable suite
    i,        \* main's loop position in suite (1-based)
    out,      \* lines written: <<[fd, text]>>, fd 1 = stdout, 2 = stderr
    status    \* exit status, -1 while the process runs

vars == <<globals, held, result, first, calls, muts, pc, argv, args, suite, i,
          out, status>>

\* ---------------------------------------------------------------- bounds
MaxCalls == 2
MaxMuts == 1
MaxArgs == 2

\* ---------------------------------------------------------------- strings
\* The characters that occur in the module's names and domain names, in
\* increasing code point order ('-' < digits < upper case < '_' < lower case).
Alphabet == "-0123456789ABCDEFGHIJKLMNOPQRSTUVWXYZ_abcdefghijklmnopqrstuvwxyz"

Ord == [c \in {SubSeq(Alphabet, k, k) : k \in 1..Len(Alphabet)} |->
           CHOOSE k \in 1..Len(Alphabet) : SubSeq(Alphabet, k, k) = c]

RECURSIVE StrLeAt(_, _, _)
StrLeAt(a, b, k) ==
    IF k > Len(a) THEN TRUE
    ELSE IF k > Len(b) THEN FALSE
    ELSE LET ca == SubSeq(a, k, k)
             cb == SubSeq(b, k, k)
         IN  IF ca = cb THEN StrLeAt(a, b, k + 1) ELSE Ord[ca] < Ord[cb]

\* a <= b in Python's str order
StrLe(a, b) == a = b \/ StrLeAt(a, b, 1)

startswith(s, prefix) ==
    Len(s) >= Len(prefix) /\ SubSeq(s, 1, Len(prefix)) = prefix

\* s[n:]
SliceFrom(s, n) == SubSeq(s, n + 1, Len(s))

\* ---------------------------------------------------------------- lists
Range(s) == {s[k] : k \in 1..Len(s)}

\* The number of elements of the sorted list s[lo+1..hi] that are <= x, plus
\* lo: where x goes so that it follows its equals (binary insertion).
RECURSIVE InsertionPoint(_, _, _, _)
InsertionPoint(s, x, lo, hi) ==
    IF lo >= hi THEN lo
    ELSE LET mid == (lo + hi + 1) \div 2
         IN  IF StrLe(s[mid], x) THEN InsertionPoint(s, x, mid, hi)
             ELSE InsertionPoint(s, x, lo, mid - 1)

InsertAt(s, p, x) == SubSeq(s, 1, p) \o <<x>> \o SubSeq(s, p + 1, Len(s))

Insert(s, x) == InsertAt(s, InsertionPoint(s, x, 0, Len(s)), x)

\* acc holds the first Len(acc) elements of s, sorted; the rest of s is
\* inserted one element at a time.
RECURSIVE SortInto(_, _)
SortInto(acc, s) ==
    IF Len(acc) = Len(s) THEN acc
    ELSE SortInto(Insert(acc, s[Len(acc) + 1]), s)

\* sorted(s): a new list, stable, ascending in str order
RECURSIVE sorted(_)
sorted(s) ==
    IF Len(s) <= 1 THEN s
    ELSE SortInto(sorted(SubSeq(s, 1, Len(s) \div 2)), s)

RECURSIVE RemoveFirst(_, _)
RemoveFirst(s, x) ==
    IF s = <<>> THEN <<>>
    ELSE IF Head(s) = x THEN Tail(s)
    ELSE <<Head(s)>> \o RemoveFirst(Tail(s), x)

\* ---------------------------------------------------------------- suites
_PREFIX == "suite_"

NoList == [origin |-> "", items |-> <<>>]

\* A list display whose value is a module-level object shared by every call:
\* the caller's mutations of the returned list show through.
SharedListDisplay(h, site, items) ==
    IF h.origin = site THEN h.items ELSE items

\* A list display [...] in a function body builds a new list object on every
\* call, whatever lists (h) the caller still holds from earlier calls.
ListDisplay(h, site, items) == items

\* The comma after 'grid' left out: Python joins the two adjacent string
\* literals into one element.
suite_no_derived_predicates_missing_comma(h) ==
    ListDisplay(h, "suite_no_derived_predicates", <<
       "acc-cc1-ghosh-etal",
       "doorexample-broken-ghosh-etal-noaxioms",
       "doorexample-fixed-ghosh-etal-noaxioms",
       "gridgrid-cc1-ghosh-etal",
       "miconic",
       "optical-telegraphs-compiled",
       "philosophers-compiled",
       "psr-middle-compiled",
       "sokoban-opt08-strips",
       "sokoban-opt08-strips-nocost" >>)

suite_no_derived_predicates(h) ==
    ListDisplay(h, "suite_no_derived_predicates", <<
       "acc-cc1-ghosh-etal",
       "doorexample-broken-ghosh-etal-noaxioms",
       "doorexample-fixed-ghosh-etal-noaxioms",
       "grid",
       "grid-cc1-ghosh-etal",
       "miconic",
       "optical-telegraphs-compiled",
       "philosophers-compiled",
       "psr-middle-compiled",
       "sokoban-opt08-strips",
       "sokoban-opt08-strips-nocost" >>)

suite_negated_occurrences(h) ==
    ListDisplay(h, "suite_negated_occurrences", <<
       "acc-cc2-ghosh-etal",
       "blocks-axioms",
       "cats-horndl",
       "doorexample-broken-ghosh-etal",
       "doorexample-fixed-ghosh-etal",
       "elevator-horndl",
       "grid-cc2-ghosh-etal",
       "mincut",
       "muddy-child-kg",
       "muddy-children-kg",
       "optimal-telegraphs",
       "philosophers",
       "queens-horndl",
       "snowman-reachability",
       "social-planning",
       "sokoban-axioms",
       "taskassign-horndl",
       "trapping_game",
       "wordrooms-kg" >>)

suite_negated_occurrences_and_function_free(h) ==
    ListDisplay(h, "suite_negated_occurrences_and_function_free", <<
       "acc-cc2-ghosh-etal",
       "blocks-axioms",
       "cats-horndl",
       "doorexample-broken-ghosh-etal",
       "doorexample-fixed-ghosh-etal",
       "elevator-horndl",
       "grid-cc2-ghosh-etal",
       "muddy-child-kg",
       "muddy-children-kg",
       "optimal-telegraphs",
       "philosophers",
       "queens-horndl",
       "snowman-reachability",
       "social-planning",
       "sokoban-axioms",
       "taskassign-horndl",
       "trapping_game",
       "wordrooms-kg" >>)

suite_only_positive_occurrences(h) ==
    ListDisplay(h, "suite_only_positive_occurrences", <<
       "collab-and-comm-kg",
       "drones-horndl",
       "ged1",
       "ged1c",
       "grid-axioms",
       "miconic-axioms",
       "psr-large",
       "psr-middle",
       "psr-middle-noce",
       "robot-horndl",
       "robotConj-horndl",
       "sum-kg",
       "tpsa-horndl",
       "vta-horndl",
       "vta-roles-horndl" >>)

\* sorted(negated_occurrences_and_function_free + only_positive_occurrences):
\* the wrong one of the two look-alike constituents.
suite_derived_predicates_function_free(h) ==
    sorted(suite_negated_occurrences_and_function_free(h) \o
           suite_only_positive_occurrences(h))

\* The constituents of suite_all instead of its own.
suite_derived_predicates_everything(h) ==
    sorted(suite_negated_occurrences(h) \o suite_only_positive_occurrences(h)
           \o suite_no_derived_predicates(h))

suite_derived_predicates(h) ==
    sorted(suite_negated_occurrences(h) \o suite_only_positive_occurrences(h))

\* The concatenation returned as it is, the sorted() call forgotten.
suite_all_unsorted(h) ==
    suite_derived_predicates(h) \o suite_no_derived_predicates(h)

suite_all(h) ==
    sorted(suite_derived_predicates(h) \o suite_no_derived_predicates(h))

\* ---------------------------------------------------------------- registry
\* globals() once the module body has run: the names bound by the imports,
\* assignments and defs of the file, in the order they are bound.
\* The interpreter's own entries (__name__, __doc__, ...) are left out: none
\* starts with the prefix, so neither lookup can reach them.
ModuleGlobals ==
    << [name |-> "argparse", kind |-> "module"],
       [name |-> "defaultdict", kind |-> "class"],
       [name |-> "json", kind |-> "module"],
       [name |-> "os", kind |-> "module"],
       [name |-> "HELP", kind |-> "str"],
       [name |-> "_PREFIX", kind |-> "str"],
       [name |-> "suite_no_derived_predicates", kind |-> "function"],
       [name |-> "suite_negated_occurrences", kind |-> "function"],
       [name |-> "suite_negated_occurrences_and_function_free",
        kind |-> "function"],
       [name |-> "suite_only_positive_occurrences", kind |-> "function"],
       [name |-> "suite_derived_predicates", kind |-> "function"],
       [name |-> "suite_all", kind |-> "function"],
       [name |-> "get_suite_names", kind |-> "function"],
       [name |-> "get_suite", kind |-> "function"],
       [name |-> "_parse_args", kind |-> "function"],
       [name |-> "main", kind |-> "function"] >>

\* globals().keys(), in insertion order
Keys(g) == [k \in 1..Len(g) |-> g[k].name]

RECURSIVE Filter(_, _)
Filter(s, prefix) ==
    IF s = <<>> THEN <<>>
    ELSE IF startswith(Head(s), prefix) THEN <<Head(s)>> \o Filter(Tail(s), prefix)
    ELSE Filter(Tail(s), prefix)

\* [name[n:] for name in names]
SliceAll(names, n) == [k \in 1..Len(names) |-> SliceFrom(names[k], n)]

\* The comprehension over the keys in namespace order, sorted() forgotten.
get_suite_names_unsorted(g) ==
    SliceAll(Filter(Keys(g), _PREFIX), Len(_PREFIX))

get_suite_names(g) ==
    SliceAll(Filter(sorted(Keys(g)), _PREFIX), Len(_PREFIX))

\* suite_func(): what calling the object bound to key does
CallGlobal(g, h, key) ==
    LET entry == CHOOSE e \in Range(g) : e.name = key
        list(v) == [kind |-> "ok", value |-> v]
    IN  IF entry.kind \in {"module", "str"}
        THEN [kind |-> "TypeError", value |-> <<>>]
        ELSE CASE key = "suite_no_derived_predicates" ->
                      list(suite_no_derived_predicates(h))
               [] key = "suite_negated_occurrences" ->
                      list(suite_negated_occurrences(h))
               [] key = "suite_negated_occurrences_and_function_free" ->
                      list(suite_negated_occurrences_and_function_free(h))
               [] key = "suite_only_positive_occurrences" ->
                      list(suite_only_positive_occurrences(h))
               [] key = "suite_derived_predicates" ->
                      list(suite_derived_predicates(h))
               [] key = "suite_all" -> list(suite_all(h))
               [] key = "get_suite_names" -> list(get_suite_names(g))
               [] key = "get_suite" -> [kind |-> "TypeError", value |-> <<>>]
               [] OTHER -> [kind |-> "other", value |-> <<>>]

\* A lookup that falls back to an empty list when the key is missing,
\* as globals().get(key, list)() would.
get_suite_default(g, h, name) ==
    LET key == _PREFIX \o name
    IN  IF key \in Range(Keys(g)) THEN CallGlobal(g, h, key)
        ELSE [kind |-> "ok", value |-> <<>>]

\* A lookup by the bare name, the prefix left out.
get_suite_no_prefix(g, h, name) ==
    IF name \in Range(Keys(g)) THEN CallGlobal(g, h, name)
    ELSE [kind |-> "KeyError", value |-> <<>>]

\* globals()[_PREFIX + name] raises KeyError for a missing key; otherwise
\* the object found is called with no arguments and its result returned.
get_suite(g, h, name) ==
    LET key == _PREFIX \o name
    IN  IF key \in Range(Keys(g)) THEN CallGlobal(g, h, key)
        ELSE [kind |-> "KeyError", value |-> <<>>]

\* ---------------------------------------------------------------- argparse
HelpFlags == {"-h", "--help"}

\* parse_args over argv from position k on: the one positional "suite"
\* takes the first non-flag string (checked against choices when restrict),
\* later ones are unrecognized; the help action exits where it is met.
RECURSIVE ParseKnown(_, _, _, _, _, _)
ParseKnown(av, k, seen, extras, choices, restrict) ==
    IF k > Len(av)
    THEN IF seen = <<>> \/ extras > 0
         THEN [outcome |-> "error", suite |-> <<>>]
         ELSE [outcome |-> "ok", suite |-> seen]
    ELSE IF av[k] \in HelpFlags
    THEN [outcome |-> "help", suite |-> <<>>]
    ELSE IF seen = <<>>
    THEN IF restrict /\ av[k] \notin Range(choices)
         THEN [outcome |-> "error", suite |-> <<>>]
         ELSE ParseKnown(av, k + 1, <<av[k]>>, extras, choices, restrict)
    ELSE ParseKnown(av, k + 1, seen, extras + 1, choices, restrict)

\* add_argument("suite") with the choices= keyword left out.
_parse_args_any(g, av) ==
    ParseKnown(av, 1, <<>>, 0, get_suite_names(g), FALSE)

_parse_args(g, av) ==
    ParseKnown(av, 1, <<>>, 0, get_suite_names(g), TRUE)

\* print(repr(d)): the string with its quotes.
print_repr(o, d) == Append(o, [fd |-> 1, text |-> "'" \o d \o "'"])

\* print(d): one line on standard output
print(o, d) == Append(o, [fd |-> 1, text |-> d])

\* ---------------------------------------------------------------- inputs
RegisteredNames ==
    {"all", "derived_predicates", "negated_occurrences",
     "negated_occurrences_and_function_free", "no_derived_predicates",
     "only_positive_occurrences"}

UnregisteredNames ==
    {"not-a-suite", "no-derived-predicates", "suite_all"}

SuiteInputs == RegisteredNames \cup UnregisteredNames

Tokens == RegisteredNames \cup {"not-a-suite", "no-derived-predicates", "-h"}

ArgvInputs == UNION {[1..n -> Tokens] : n \in 0..MaxArgs}

CallerItems == {"grid", "mincut"}

\* ---------------------------------------------------------------- state
NoResult ==
    [op |-> "", name |-> "", kind |-> "", value |-> <<>>, prior |-> NoList]

Init ==
    /\ globals = ModuleGlobals
    /\ held = NoList
    /\ result = NoResult
    /\ first = <<>>
    /\ calls = 0
    /\ muts = 0
    /\ args = <<>>
    /\ suite = <<>>
    /\ i = 0
    /\ out = <<>>
    /\ status = -1
    /\ \/ pc = "import" /\ argv = <<>>
       \/ pc = "parse" /\ argv \in ArgvInputs

mainVars == <<pc, argv, args, suite, i, out, status>>

\* ------------------------------------------------------- library caller
\* what a call left behind: r is what it returned or raised, prior the list
\* the caller's variable held when the call was made
Outcome(op, name, prior, r) ==
    [op |-> op, name |-> name, kind |-> r.kind, value |-> r.value,
     prior |-> prior]

\* x = get_suite(name)
CallGetSuite(name) ==
    /\ pc = "import"
    /\ calls < MaxCalls
    /\ result' = Outcome("get_suite", name, held,
                         get_suite(globals, held, name))
    /\ held' = IF result'.kind = "ok"
               THEN [origin |-> _PREFIX \o name, items |-> result'.value]
               ELSE held
    /\ first' = IF result'.kind = "ok" /\ name \notin DOMAIN first
                THEN first @@ (name :> result'.value)
                ELSE first
    /\ calls' = calls + 1
    /\ UNCHANGED <<globals, muts, mainVars>>

\* x = get_suite_names()
CallGetSuiteNames ==
    /\ pc = "import"
    /\ result' = Outcome("get_suite_names", "", held,
                         [kind |-> "ok", value |-> get_suite_names(globals)])
    /\ held' = [origin |-> "get_suite_names", items |-> result'.value]
    /\ UNCHANGED <<globals, first, calls, muts, mainVars>>

\* x.append(d)
CallerAppend(d) ==
    /\ pc = "import"
    /\ held # NoList
    /\ muts < MaxMuts
    /\ held' = [origin |-> held.origin, items |-> Append(held.items, d)]
    /\ muts' = muts + 1
    /\ UNCHANGED <<globals, result, first, calls, mainVars>>

\* x.remove(d)
CallerRemove(d) ==
    /\ pc = "import"
    /\ held # NoList
    /\ muts < MaxMuts
    /\ d \in Range(held.items)
    /\ held' = [origin |-> held.origin,
                 items |-> RemoveFirst(held.items, d)]
    /\ muts' = muts + 1
    /\ UNCHANGED <<globals, result, first, calls, mainVars>>

\* x.sort()
CallerSort ==
    /\ pc = "import"
    /\ held # NoList
    /\ muts < MaxMuts
    /\ held' = [origin |-> held.origin, items |-> sorted(held.items)]
    /\ muts' = muts + 1
    /\ UNCHANGED <<globals, result, first, calls, mainVars>>

\* ------------------------------------------------------- main
\* args = _parse_args()
ParseArgs ==
    /\ pc = "parse"
    /\ LET r == _parse_args(globals, argv)
       IN  CASE r.outcome = "ok" ->
                  /\ args' = r.suite
                  /\ pc' = "lookup"
                  /\ UNCHANGED <<out, status>>
             [] r.outcome = "help" ->
                  /\ out' = Append(out, [fd |-> 1, text |-> "usage"])
                  /\ status' = 0
                  /\ pc' = "exit"
                  /\ UNCHANGED args
             [] OTHER ->
                  /\ out' = Append(out, [fd |-> 2, text |-> "usage"])
                  /\ status' = 2
                  /\ pc' = "exit"
                  /\ UNCHANGED args
    /\ UNCHANGED <<globals, held, result, first, calls, muts, argv, suite, i>>

\* suite = get_suite(args.suite)
MainGetSuite ==
    /\ pc = "lookup"
    /\ LET r == get_suite(globals, held, args[1])
       IN  IF r.kind = "ok"
           THEN /\ suite' = r.value
                /\ i' = 1
                /\ pc' = "print"
                /\ UNCHANGED <<out, status>>
           ELSE /\ out' = Append(out, [fd |-> 2, text |-> r.kind])
                /\ status' = 1
                /\ pc' = "exit"
                /\ UNCHANGED <<suite, i>>
    /\ calls' = calls + 1
    /\ UNCHANGED <<globals, held, result, first, muts, argv, args>>

\* for d in suite: print(d)
MainPrint ==
    /\ pc = "print"
    /\ i <= Len(suite)
    /\ out' = print(out, suite[i])
    /\ i' = i + 1
    /\ UNCHANGED <<globals, held, result, first, calls, muts, pc, argv, args,
                   suite, status>>

\* the loop is exhausted, main returns and the interpreter exits
MainReturn ==
    /\ pc = "print"
    /\ i > Len(suite)
    /\ pc' = "exit"
    /\ status' = 0
    /\ UNCHANGED <<globals, held, result, first, calls, muts, argv, args,
                   suite, i, out>>

Next ==
    \/ \E name \in SuiteInputs : CallGetSuite(name)
    \/ CallGetSuiteNames
    \/ \E d \in CallerItems : CallerAppend(d)
    \/ \E d \in CallerItems : CallerRemove(d)
    \/ CallerSort
    \/ ParseArgs
    \/ MainGetSuite
    \/ MainPrint
    \/ MainReturn

Spec == Init /\ [][Next]_vars

\* ---------------------------------------------------------------- properties
IsSorted(s) == \A k \in 1..(Len(s) - 1) : StrLe(s[k], s[k + 1])

Count(s, x) == Cardinality({k \in 1..Len(s) : s[k] = x})

SameBag(s, t) ==
    /\ Len(s) = Len(t)
    /\ \A x \in Range(s) \cup Range(t) : Count(s, x) = Count(t, x)

Registered == Range(get_suite_names(globals))

Returned(name) ==
    result.op = "get_suite" /\ result.name = name /\ result.kind = "ok"

\* the text of the lines written to standard output, in order
Stdout ==
    LET lines == SelectSeq(out, LAMBDA e : e.fd = 1)
    IN  [k \in 1..Len(lines) |-> lines[k].text]

DomainNames ==
    Range(suite_no_derived_predicates(NoList))
        \cup Range(suite_negated_occurrences(NoList))
        \cup Range(suite_negated_occurrences_and_function_free(NoList))
        \cup Range(suite_only_positive_occurrences(NoList))

ElevenNames ==
    << "acc-cc1-ghosh-etal", "doorexample-broken-ghosh-etal-noaxioms",
       "doorexample-fixed-ghosh-etal-noaxioms", "grid", "grid-cc1-ghosh-etal",
       "miconic", "optical-telegraphs-compiled", "philosophers-compiled",
       "psr-middle-compiled", "sokoban-opt08-strips",
       "sokoban-opt08-strips-nocost" >>

\* C1: a get_suite call with a name that is not registered raises the lookup
\* error (KeyError), returns no list, and changes neither the namespace nor
\* what any registered suite yields nor the list the caller holds.
C1_UnknownNameFails ==
    [][(pc = "import" /\ calls' = calls + 1 /\ result'.name \notin Registered)
        => /\ result'.kind = "KeyError"
           /\ result'.value = <<>>
           /\ globals' = globals
           /\ held' = held
           /\ first' = first
           /\ get_suite_names(globals') = get_suite_names(globals)]_vars

C1_Witness ==
    /\ result.op = "get_suite"
    /\ result.name = "not-a-suite"
    /\ result.kind = "KeyError"
    /\ result.prior # NoList

\* C2 as stated: the name no-derived-predicates (with hyphens) is accepted by
\* get_suite and by the command line and yields the eleven names.
C2_HyphenNameSucceeds ==
    /\ (result.op = "get_suite" /\ result.name = "no-derived-predicates")
           => (result.kind = "ok" /\ result.value = ElevenNames)
    /\ (pc = "exit" /\ argv = <<"no-derived-predicates">>)
           => (status = 0 /\ Stdout = ElevenNames)

\* C2 amended: the suite is registered as no_derived_predicates (with
\* underscores); requesting it through get_suite or the command line yields
\* exactly the eleven literal names, one per line, in declared order.
C2_UnderscoreNameSucceeds ==
    /\ (result.op = "get_suite" /\ result.name = "no_derived_predicates")
           => (result.kind = "ok" /\ result.value = ElevenNames)
    /\ (pc = "exit" /\ argv = <<"no_derived_predicates">>)
           => (status = 0 /\ Stdout = ElevenNames /\ Len(out) = Len(ElevenNames))

C2_Witness ==
    /\ pc = "exit"
    /\ argv = <<"no_derived_predicates">>
    /\ Len(out) = Len(ElevenNames)

\* C3: the all suite is in non-decreasing str order and its members are
\* exactly the names that occur in one of the four primitive suites.
C3_AllIsSortedUnion ==
    Returned("all")
        => /\ IsSorted(result.value)
           /\ Range(result.value) =
                  Range(suite_no_derived_predicates(held))
                      \cup Range(suite_negated_occurrences(held))
                      \cup Range(suite_negated_occurrences_and_function_free(held))
                      \cup Range(suite_only_positive_occurrences(held))

C3_Witness == Returned("all") /\ Len(result.value) > 0

\* C4: derived_predicates is sorted and is a permutation of the concatenation
\* of negated_occurrences and only_positive_occurrences, duplicates kept, so
\* its length is the sum of their lengths.
C4_DerivedIsSortedConcatenation ==
    Returned("derived_predicates")
        => LET neg == suite_negated_occurrences(held)
               pos == suite_only_positive_occurrences(held)
           IN  /\ IsSorted(result.value)
               /\ SameBag(result.value, neg \o pos)
               /\ Len(result.value) = Len(neg) + Len(pos)

C4_Witness == Returned("derived_predicates") /\ Len(result.value) > 1

\* C5: no name is both in derived_predicates and in no_derived_predicates.
C5_DerivedDisjointFromNoDerived ==
    /\ Returned("derived_predicates")
           => Range(result.value) \cap Range(suite_no_derived_predicates(held)) = {}
    /\ Returned("no_derived_predicates")
           => Range(result.value) \cap Range(suite_derived_predicates(held)) = {}

C5_Witness ==
    /\ Returned("derived_predicates")
    /\ result.prior.origin = "suite_no_derived_predicates"

\* C6: get_suite_names returns a non-empty list without duplicates, in
\* ascending str order of the names with the prefix stripped, and each entry
\* is the rest of a namespace key that starts with the prefix.
C6_NamesSortedUnique ==
    result.op = "get_suite_names"
        => /\ Len(result.value) > 0
           /\ IsSorted(result.value)
           /\ Cardinality(Range(result.value)) = Len(result.value)
           /\ Range(result.value) =
                  {SliceFrom(key, Len(_PREFIX)) :
                      key \in {e \in Range(Keys(globals)) : startswith(e, _PREFIX)}}

C6_Witness == result.op = "get_suite_names" /\ Len(result.value) > 1

\* C7: every get_suite call with a registered name returns a non-empty list
\* equal, element by element, to what the first call with that name returned,
\* whatever the caller did to the lists returned before.
C7_ContentsFixed ==
    /\ (result.op = "get_suite" /\ result.name \in Registered)
           => result.kind = "ok"
    /\ (result.op = "get_suite" /\ result.kind = "ok")
           => /\ Len(result.value) > 0
              /\ result.name \in DOMAIN first
              /\ result.value = first[result.name]

\* the caller called again while holding a list it got from the same suite
\* and has changed since
C7_Witness ==
    /\ result.op = "get_suite"
    /\ result.kind = "ok"
    /\ result.prior.origin = _PREFIX \o result.name
    /\ result.prior.items # result.value

\* the command line is exactly one registered suite name
OneRegisteredName == Len(argv) = 1 /\ argv[1] \in Registered

NoDomainPrinted == \A k \in 1..Len(out) : out[k].text \notin DomainNames

\* C8 as stated: a command line that is empty or a single string that is not
\* a registered name ends with a non-zero status, nothing looked up, no
\* domain name printed.
C8_RejectedNonZero ==
    (pc # "import" /\ (argv = <<>> \/ (Len(argv) = 1 /\ argv[1] \notin Registered)))
        => /\ calls = 0
           /\ NoDomainPrinted
           /\ pc = "exit" => status # 0

\* C8 amended: on every command line other than exactly one registered name
\* get_suite is never called and no domain name is printed, and the exit
\* status is non-zero unless the help flag is on the command line (-h alone
\* prints the help text and exits with status zero).
C8_RejectedBeforeLookup ==
    (pc # "import" /\ ~OneRegisteredName)
        => /\ calls = 0
           /\ NoDomainPrinted
           /\ pc \in {"parse", "exit"}
           /\ pc = "exit" =>
                  /\ status = 0 => \E k \in 1..Len(argv) : argv[k] \in HelpFlags
                  /\ argv = <<"-h">> => status = 0

C8_Witness ==
    /\ pc = "exit"
    /\ argv = <<"not-a-suite">>
    /\ status = 2
    /\ calls = 0

\* C9: with exactly one registered name on the command line main ends with
\* status zero having written the elements of get_suite(name), one per line
\* on standard output, in order, and nothing else.
PrintedIs(r) ==
    /\ r.kind = "ok"
    /\ Len(out) = Len(r.value)
    /\ \A k \in 1..Len(out) : out[k].fd = 1 /\ out[k].text = r.value[k]

C9_PrintsSuite ==
    (pc = "exit" /\ OneRegisteredName)
        => (status = 0 /\ PrintedIs(get_suite(globals, held, argv[1])))

C9_Witness ==
    /\ pc = "exit"
    /\ argv = <<"all">>
    /\ status = 0
    /\ Len(out) > Len(ElevenNames)

\* C10: get_suite returns a list exactly for the names get_suite_names lists,
\* and every listed name is bound to a function under the prefixed key.
C10_ListingAgreesWithLookup ==
    /\ result.op = "get_suite"
           => (result.kind = "ok" <=> result.name \in Registered)
    /\ result.op = "get_suite_names"
           => \A n \in Range(result.value) :
                  \E e \in Range(globals) :
                      e.name = _PREFIX \o n /\ e.kind = "function"

C10_Witness ==
    /\ result.op = "get_suite"
    /\ result.name = "suite_all"
    /\ result.kind # "ok"
====
